---- MODULE Spec2Model ----
(***************************************************************************)
(* medida: stats::SlidingWindowSample (the windowed reservoir) and         *)
(* stats::Snapshot (the weighted quantile snapshot).                       *)
(*                                                                         *)
(* src/src/medida/stats/sliding_window_sample.cc holds two implementations *)
(* of the reservoir: lines 1-186 (per-slice counter, sliceCount_) and      *)
(* lines 188-361 (admission mask, admissionMask_).  The variable `build`   *)
(* says which of the two a behaviour runs; both are modelled.              *)
(* src/unnamed/part_000 is snapshot.cc.                                    *)
(*                                                                         *)
(* Time points are microsecond counts (the unit of timeSlice_); doubles    *)
(* are exact rationals [num, den] where a quotient is taken.               *)
(***************************************************************************)
EXTENDS Integers, Sequences, FiniteSets, TLC

VARIABLES
    build,          \* "sliceCount" (lines 1-186) or "admissionMask" (lines 188-361)
    values_,        \* std::deque<std::pair<double, time_point>>
    sliceCount_,    \* std::uint32_t, lines 36, 91
    admissionMask_, \* std::size_t, lines 223, 276
    mutex_,         \* owner of std::mutex mutex_, or NoThread
    ub,             \* outcome of undefined behaviour on the deque: "none", "abort", "wrap"
    now,            \* the last reading of Clock::now(), microseconds
    calls,          \* number of public operations started so far
    pc,             \* per thread: position in the operation it executes
    value,          \* per thread: argument `value` of Update
    timestamp,      \* per thread: argument `timestamp` of Update
    it,             \* per thread: range-for iterator of MakeSnapshot (position in values_)
    end,            \* per thread: end iterator of the range-for of MakeSnapshot
    vals,           \* per thread: std::vector<double> vals of MakeSnapshot
    seen,           \* per thread: the contents values_ had during the MakeSnapshot call
    beaten,         \* values offered in the newest entry's slice that it displaced or outlasted
    sizeRet,        \* per thread: last value returned by size()
    snapshot,       \* per thread: the Snapshot last returned by MakeSnapshot()
    input,          \* Snapshot under test: the vector handed to the constructor
    impl_,          \* Snapshot under test: std::unique_ptr<Impl> impl_
    movedTo,        \* impl_ of the Snapshot move-constructed from the one under test
    result          \* Snapshot under test: outcome of the last query

vars == <<build, values_, sliceCount_, admissionMask_, mutex_, ub, now, calls,
          pc, value, timestamp, it, end, vals, seen, beaten, sizeRet, snapshot,
          input, impl_, movedTo, result>>

reservoirVars == <<build, values_, sliceCount_, admissionMask_, mutex_, ub, now,
                   calls, pc, value, timestamp, it, end, vals, seen, beaten,
                   sizeRet, snapshot>>

snapshotVars == <<input, impl_, movedTo, result>>

----------------------------------------------------------------------------
(* Bounds of the model *)

NumThreads == 2       \* threads calling into one reservoir
MaxValue == 2         \* Update values are 1..MaxValue
MaxTime == 4          \* time points are 0..MaxTime seconds
MaxCalls == 3         \* public operations started in one behaviour
MaxLen == 4           \* longest input vector of the Snapshot under test
QDen == 4             \* quantiles are k/QDen, k in -1..QDen+1
U32Bits == 2          \* modelled width of std::uint32_t

(* Construction parameters, lines 84-96 and 271-280 *)
windowSize_ == 2
windowTime_ == 3      \* std::chrono::seconds

UsPerSec == 1000000   \* duration_cast<microseconds>(seconds)

Threads == 1..NumThreads
NoThread == NumThreads + 1
Values == 1..MaxValue
TimePoints == {s * UsPerSec : s \in 0..MaxTime}
SizeBits == 2 * U32Bits        \* modelled width of std::size_t (twice uint32_t's)
Uint32Max == 2^U32Bits - 1     \* std::numeric_limits<std::uint32_t>::max()
SizeMax == 2^SizeBits - 1      \* std::numeric_limits<std::size_t>::max()
Null == [null |-> TRUE]        \* an empty std::unique_ptr / no object

(* timeSlice_: duration_cast<microseconds>(windowTime) / windowSize *)
timeSlice_ == (windowTime_ * UsPerSec) \div windowSize_

----------------------------------------------------------------------------
(* Snapshot (src/unnamed/part_000) *)

WeightedValue(v, w) == [value |-> v, weight |-> w]

(* The reservoir hands a vector<double>; every raw value carries weight 1 *)
RECURSIVE Weighted(_)
Weighted(vs) ==
    IF vs = <<>> THEN <<>>
    ELSE <<WeightedValue(Head(vs), 1)>> \o Weighted(Tail(vs))

(* std::sort of line 135 (ascending by value) *)
RECURSIVE InsertSorted(_, _)
InsertSorted(x, s) ==
    IF s = <<>> THEN <<x>>
    ELSE IF x.value < Head(s).value THEN <<x>> \o s
    ELSE <<Head(s)>> \o InsertSorted(x, Tail(s))

RECURSIVE Sort(_)
Sort(s) == IF s = <<>> THEN <<>> ELSE InsertSorted(Head(s), Sort(Tail(s)))

(* Lines 148-156: one iteration of the compression loop; `last` is the last
   element of values_ (it is advanced on every emplace_back). *)
MergeEqual(acc, x) ==
    [acc EXCEPT ![Len(acc)].value = @ + x.weight]

RECURSIVE Compress(_, _, _, _)
Compress(values, i, acc, total) ==
    IF i > Len(values) THEN [values_ |-> acc, totalWeight_ |-> total]
    ELSE LET x == values[i]
         IN  IF x.value = acc[Len(acc)].value
             THEN Compress(values, i + 1, MergeEqual(acc, x), total + x.weight)
             ELSE Compress(values, i + 1, Append(acc, x), total + x.weight)

(* Snapshot::Impl::Impl, lines 132-158.  totalWeight_ is left uninitialised
   when the input is empty: `garbage` is the value the member then holds. *)
SnapshotImpl(v, garbage) ==
    LET values == Sort(v)
    IN  IF values = <<>>
        THEN [values_ |-> <<>>, totalWeight_ |-> garbage]
        ELSE Compress(values, 2, <<values[1]>>, values[1].weight)

(* Snapshot::Impl::size, lines 164-168 *)
size(impl) == Len(impl.values_)

(* Snapshot::Impl::getValues, lines 170-178 *)
getValues(impl) == [i \in 1..Len(impl.values_) |-> impl.values_[i].value]

(* Exact rationals standing for double results *)
Rat(n, d) == [num |-> n, den |-> d]
Leq(a, b) == a.num * b.den <= b.num * a.den
Less(a, b) == a.num * b.den < b.num * a.den
Returned(r) == [threw |-> "none", ret |-> r]
Threw(e) == [threw |-> e]

(* Lines 195-212: the walk over the cumulative weights.  q = <<qn, qd>> is the
   quantile qn/qd, so qWeight = qn * totalWeight_ / qd. *)
RECURSIVE Walk(_, _, _, _)
Walk(impl, q, i, prevQ) ==
    IF i > Len(impl.values_)
    THEN Rat(impl.values_[Len(impl.values_)].value, 1)
    ELSE LET curQ == prevQ + impl.values_[i].weight
         IN  IF curQ * q[2] >= q[1] * impl.totalWeight_
             THEN IF i = 1
                  THEN Rat(impl.values_[1].value, 1)
                  ELSE LET a == impl.values_[i - 1].value
                           b == impl.values_[i].value
                       IN  Rat(a * q[2] * (curQ - prevQ)
                                 + (q[1] * impl.totalWeight_ - prevQ * q[2]) * (b - a),
                               q[2] * (curQ - prevQ))
             ELSE Walk(impl, q, i + 1, curQ)

(* getValue with the two early exits of lines 183-191 in the other order: an
   empty snapshot answers 0 before the quantile is looked at *)
getValueEmptyFirst(impl, q) ==
    IF impl.values_ = <<>> \/ impl.totalWeight_ = 0
    THEN Returned(Rat(0, 1))
    ELSE IF q[1] < 0 \/ q[1] > q[2]
         THEN Threw("invalid_argument")
         ELSE Returned(Walk(impl, q, 1, 0))

(* getValue whose line 188 tests totalWeight_ only: with no entry it falls to
   the read behind the empty vector, which yields what the member holds *)
getValueWeightOnly(impl, q) ==
    IF q[1] < 0 \/ q[1] > q[2]
    THEN Threw("invalid_argument")
    ELSE IF impl.totalWeight_ = 0
         THEN Returned(Rat(0, 1))
         ELSE IF impl.values_ = <<>>
              THEN Returned(Rat(impl.totalWeight_, 1))
              ELSE Returned(Walk(impl, q, 1, 0))

(* Snapshot::Impl::getValue, lines 180-213 *)
getValue(impl, q) ==
    IF q[1] < 0 \/ q[1] > q[2]
    THEN Threw("invalid_argument")
    ELSE IF impl.values_ = <<>> \/ impl.totalWeight_ = 0
         THEN Returned(Rat(0, 1))
         ELSE Returned(Walk(impl, q, 1, 0))

(* Lines 18-23: the quantiles of the percentile accessors, as <<qn, qd>> *)
kMEDIAN_Q == <<1, 2>>
kP75_Q == <<3, 4>>
kP95_Q == <<95, 100>>
kP98_Q == <<98, 100>>
kP99_Q == <<99, 100>>
kP999_Q == <<999, 1000>>

(* Lines 215-249 *)
getMedian(impl) == getValue(impl, kMEDIAN_Q)
get75thPercentile(impl) == getValue(impl, kP75_Q)
get95thPercentile(impl) == getValue(impl, kP95_Q)
get98thPercentile(impl) == getValue(impl, kP98_Q)
get99thPercentile(impl) == getValue(impl, kP99_Q)
get999thPercentile(impl) == getValue(impl, kP999_Q)

(* What std::move(other.impl_) of line 50 leaves in other.impl_; the mutant
   copies the pointer and leaves the source as it was *)
MovedFromKept(p) == p

MovedFrom(p) == Null

----------------------------------------------------------------------------
(* SlidingWindowSample::Impl (src/src/medida/stats/sliding_window_sample.cc) *)

Entry(v, ts) == [first |-> v, second |-> ts]

Firsts(d) == [i \in 1..Len(d) |-> d[i].first]

(* Bitwise and of two naturals *)
RECURSIVE BitAnd(_, _)
BitAnd(a, b) ==
    IF a = 0 \/ b = 0 THEN 0
    ELSE (a % 2) * (b % 2) + 2 * BitAnd(a \div 2, b \div 2)

(* Positions of Update / Clear / size / MakeSnapshot at which the next step
   reads or writes values_, sliceCount_ or admissionMask_ *)
AccessPcs == {"u_empty", "u_newSlice", "u_trim", "u_pop", "u_admit",
              "c_clear", "s_size", "m_begin", "m_copy"}
SnapshotPcs == {"m_lock", "m_begin", "m_copy"}

(* Where Update starts and where it goes after the trimming block: lines
   126-128 take the lock first; lines 311-333 take it after the trimming. *)
UpdateEntry == IF build = "sliceCount" THEN "u_lock" ELSE "u_empty"
AfterLock == IF build = "sliceCount" THEN "u_empty" ELSE "u_admit"
AfterTrim == IF build = "sliceCount" THEN "u_admit" ELSE "u_lock"

(* Ghost: what values_ held at some instant of each running MakeSnapshot *)
Observe(d) ==
    [t \in Threads |-> IF pc[t] \in SnapshotPcs THEN seen[t] \cup {Firsts(d)}
                       ELSE seen[t]]

(* What the Snapshots already returned hold once values_ has become d: each
   owns copies (vals in MakeSnapshot, `auto values(v)` in Snapshot::Impl::Impl),
   so nothing the reservoir does reaches them. *)
SnapshotsAliased(d) ==
    [t \in Threads |-> IF snapshot[t] = Null THEN Null
                       ELSE SnapshotImpl(Weighted(Firsts(d)), 0)]

SnapshotsAfter(d) == snapshot

(* pop_front leaves the other elements in place: an iterator of a running
   range-for keeps pointing at its element, one position nearer the front;
   position 0 or less is an element that was destroyed. *)
Shifted(f) == [t \in Threads |-> IF pc[t] = "m_copy" THEN f[t] - 1 ELSE f[t]]

Init ==
    /\ build \in {"sliceCount", "admissionMask"}
    /\ values_ = <<>>
    /\ sliceCount_ = 0
    /\ admissionMask_ = 0
    /\ mutex_ = NoThread
    /\ ub = "none"
    /\ now = 0
    /\ calls = 0
    /\ pc = [t \in Threads |-> "idle"]
    /\ value = [t \in Threads |-> 0]
    /\ timestamp = [t \in Threads |-> 0]
    /\ it = [t \in Threads |-> 0]
    /\ end = [t \in Threads |-> 0]
    /\ vals = [t \in Threads |-> <<>>]
    /\ seen = [t \in Threads |-> {}]
    /\ beaten = {}
    /\ sizeRet = [t \in Threads |-> 0]
    /\ snapshot = [t \in Threads |-> Null]
    /\ input = <<>>
    /\ impl_ = Null
    /\ movedTo = Null
    /\ result = Null

Start(t, first) ==
    /\ ub = "none"
    /\ pc[t] = "idle"
    /\ calls < MaxCalls
    /\ calls' = calls + 1
    /\ pc' = [pc EXCEPT ![t] = first]

(* SlidingWindowSample::Update(value, timestamp), lines 70-74 / 257-261 *)
CallUpdate(t, v, ts) ==
    /\ Start(t, UpdateEntry)
    /\ value' = [value EXCEPT ![t] = v]
    /\ timestamp' = [timestamp EXCEPT ![t] = ts]
    /\ seen' = [seen EXCEPT ![t] = {}]
    /\ UNCHANGED <<build, beaten, values_, sliceCount_, admissionMask_, mutex_, ub, now,
                   it, end, vals, sizeRet, snapshot, snapshotVars>>

(* The clock is read at a call; it never goes back *)
ReadClock == \E n \in TimePoints : n >= now /\ now' = n

(* Impl::Update(value), lines 116-120 / 301-305: timestamp = Clock::now() *)
CallUpdateNow(t, v) ==
    /\ Start(t, UpdateEntry)
    /\ ReadClock
    /\ value' = [value EXCEPT ![t] = v]
    /\ timestamp' = [timestamp EXCEPT ![t] = now']
    /\ seen' = [seen EXCEPT ![t] = {}]
    /\ UNCHANGED <<build, beaten, values_, sliceCount_, admissionMask_, mutex_, ub,
                   it, end, vals, sizeRet, snapshot, snapshotVars>>

(* The other calls; timestamp[t] records the clock at the call *)
CallOther(t, first) ==
    /\ Start(t, first)
    /\ ReadClock
    /\ timestamp' = [timestamp EXCEPT ![t] = now']
    /\ seen' = [seen EXCEPT ![t] = IF first = "m_lock" THEN {Firsts(values_)} ELSE {}]
    /\ UNCHANGED <<build, beaten, values_, sliceCount_, admissionMask_, mutex_, ub,
                   value, it, end, vals, sizeRet, snapshot, snapshotVars>>

CallClear(t) == CallOther(t, "c_lock")
CallSize(t) == CallOther(t, "s_lock")
CallMakeSnapshot(t) == CallOther(t, "m_lock")

(* An operation returns to its caller *)
Return(t) ==
    /\ pc' = [pc EXCEPT ![t] = "idle"]
    /\ value' = [value EXCEPT ![t] = 0]
    /\ timestamp' = [timestamp EXCEPT ![t] = 0]

(* std::lock_guard<std::mutex> lock{mutex_}: lines 105, 112, 126, 175 and
   289, 297, 333, 349 *)
Lock(t, at, next) ==
    /\ ub = "none"
    /\ pc[t] = at
    /\ mutex_ = NoThread
    /\ mutex_' = t
    /\ pc' = [pc EXCEPT ![t] = next]
    /\ UNCHANGED <<build, beaten, values_, sliceCount_, admissionMask_, ub, now, calls,
                   value, timestamp, it, end, vals, seen, sizeRet, snapshot,
                   snapshotVars>>

Update_lock(t) == Lock(t, "u_lock", AfterLock)
Clear_lock(t) == Lock(t, "c_lock", "c_clear")
size_lock(t) == Lock(t, "s_lock", "s_size")
MakeSnapshot_lock(t) == Lock(t, "m_lock", "m_begin")

(* Line 128 / 311: if (!values_.empty()) *)
Update_empty(t) ==
    /\ ub = "none"
    /\ pc[t] = "u_empty"
    /\ pc' = [pc EXCEPT ![t] = IF values_ /= <<>> THEN "u_newSlice" ELSE AfterTrim]
    /\ UNCHANGED <<build, beaten, values_, sliceCount_, admissionMask_, mutex_, ub, now,
                   calls, value, timestamp, it, end, vals, seen, sizeRet, snapshot, snapshotVars>>

(* Lines 131-134: sliceCount_ = 0; lines 314-317: admissionMask_ = 0 *)
ResetSlice ==
    /\ sliceCount_' = IF build = "sliceCount" THEN 0 ELSE sliceCount_
    /\ admissionMask_' = IF build = "admissionMask" THEN 0 ELSE admissionMask_

(* Lines 130-134 / 313-317: a new time slice resets the per-slice state.
   values_.back() of a deque another thread has emptied since line 311 reads
   no element: either outcome of the comparison is possible. *)
Update_newSlice(t) ==
    /\ ub = "none"
    /\ pc[t] = "u_newSlice"
    /\ IF values_ = <<>>
       THEN ResetSlice \/ UNCHANGED <<sliceCount_, admissionMask_>>
       ELSE IF timestamp[t] > values_[Len(values_)].second + timeSlice_
            THEN ResetSlice
            ELSE UNCHANGED <<sliceCount_, admissionMask_>>
    /\ pc' = [pc EXCEPT ![t] = "u_trim"]
    /\ UNCHANGED <<build, beaten, values_, mutex_, ub, now, calls, value, timestamp, it,
                   end, vals, seen, sizeRet, snapshot, snapshotVars>>

(* Line 137 / 320 *)
expiryTime(ts) == ts - windowTime_ * UsPerSec

(* Line 138 / 321: the loop condition *)
Update_trim(t) ==
    /\ ub = "none"
    /\ pc[t] = "u_trim"
    /\ pc' = [pc EXCEPT ![t] =
                 IF values_ /= <<>> /\ Head(values_).second < expiryTime(timestamp[t])
                 THEN "u_pop" ELSE AfterTrim]
    /\ UNCHANGED <<build, beaten, values_, sliceCount_, admissionMask_, mutex_, ub, now,
                   calls, value, timestamp, it, end, vals, seen, sizeRet, snapshot, snapshotVars>>

(* Line 140 / 323: values_.pop_front().  On a deque that another thread has
   emptied since the loop condition it is undefined: the build either aborts
   (a checked library) or moves the start cursor past the finish cursor, after
   which size() reads as SizeMax ("wrap").  Nothing is modelled after it. *)
Update_pop(t) ==
    /\ ub = "none"
    /\ pc[t] = "u_pop"
    /\ IF values_ = <<>>
       THEN /\ ub' \in {"abort", "wrap"}
            /\ UNCHANGED <<values_, it, end, seen, beaten, pc, snapshot>>
       ELSE /\ values_' = Tail(values_)
            /\ beaten' = IF Tail(values_) = <<>> THEN {} ELSE beaten
            /\ snapshot' = SnapshotsAfter(Tail(values_))
            /\ it' = Shifted(it)
            /\ end' = Shifted(end)
            /\ seen' = Observe(Tail(values_))
            /\ pc' = [pc EXCEPT ![t] = "u_trim"]
            /\ ub' = ub
    /\ UNCHANGED <<build, sliceCount_, admissionMask_, mutex_, now, calls, value,
                   timestamp, vals, sizeRet, snapshotVars>>

(* Lines 163-168 / 336, 339-342: emplace_back, then pop_front when over capacity *)
PushBack(d, v, ts) ==
    LET e == Append(d, Entry(v, ts))
    IN  IF Len(e) > windowSize_ THEN Tail(e) ELSE e

(* Lines 150-169; d is the draw dist_(rng_) *)
AdmitSliceCount(vs, sc, v, ts, d) ==
    IF vs /= <<>> /\ ts <= vs[Len(vs)].second + timeSlice_
    THEN LET n == (sc + 1) % (2 ^ U32Bits)
             r == (d * n) % (2 ^ SizeBits)      \* size_t(dist_(rng_)) * sliceCount_
         IN  [values_ |-> IF r <= Uint32Max
                          THEN [vs EXCEPT ![Len(vs)].first = v]
                          ELSE vs,
              sliceCount_ |-> n]
    ELSE [values_ |-> PushBack(vs, v, ts), sliceCount_ |-> 1]

(* Lines 334-343; d is the draw dist_(rng_).  admissionMask_ <<= 1 leaves bit 0
   clear, so admissionMask_ |= 1 adds 1. *)
AdmitAdmissionMask(vs, mask, v, ts, d) ==
    IF BitAnd(d, mask) = 0
    THEN [values_ |-> PushBack(vs, v, ts),
          admissionMask_ |-> ((mask * 2) % (2 ^ SizeBits)) + 1]
    ELSE [values_ |-> vs, admissionMask_ |-> mask]

(* Line 150 / the spec's slice test: ts is in the slice of the newest entry *)
SameSlice(d, ts) == d /= <<>> /\ ts <= d[Len(d)].second + timeSlice_

(* The value of the newest entry was overwritten with v, nothing else changed *)
Overwritten(d, e, v) ==
    /\ d /= <<>>
    /\ e /= d
    /\ e = [d EXCEPT ![Len(d)].first = v]

(* Ghost: the values the newest entry has won against in its slice, once an
   Update of v at ts has turned values_ from d into e: an overwrite adds the
   value it removed, a discard adds the value it refused, a new entry starts
   a new slice. *)
Outlasted(d, e, v, ts) ==
    IF ~SameSlice(d, ts) THEN {}
    ELSE IF Overwritten(d, e, v) THEN (beaten \cup {d[Len(d)].first}) \ {v}
    ELSE IF e = d /\ v /= d[Len(d)].first THEN beaten \cup {v}
    ELSE IF e = d THEN beaten
    ELSE {}

(* The admission block and the return of Update (the lock_guard releases) *)
Update_admit(t) ==
    /\ ub = "none"
    /\ pc[t] = "u_admit"
    /\ \/ /\ build = "sliceCount"
          /\ \E d \in 0..Uint32Max :
                LET r == AdmitSliceCount(values_, sliceCount_, value[t], timestamp[t], d)
                IN  /\ values_' = r.values_
                    /\ sliceCount_' = r.sliceCount_
                    /\ UNCHANGED admissionMask_
       \/ /\ build = "admissionMask"
          /\ \E d \in 0..SizeMax :
                LET r == AdmitAdmissionMask(values_, admissionMask_, value[t],
                                            timestamp[t], d)
                IN  /\ values_' = r.values_
                    /\ admissionMask_' = r.admissionMask_
                    /\ UNCHANGED sliceCount_
    /\ seen' = Observe(values_')
    /\ beaten' = Outlasted(values_, values_', value[t], timestamp[t])
    /\ snapshot' = SnapshotsAfter(values_')
    /\ mutex_' = NoThread
    /\ Return(t)
    /\ UNCHANGED <<build, ub, now, calls, it, end, vals, sizeRet, snapshotVars>>

(* Impl::Clear, lines 102-107 (values_ only) and 286-292 (admissionMask_ too) *)
Clear_clear(t) ==
    /\ ub = "none"
    /\ pc[t] = "c_clear"
    /\ values_' = <<>>
    /\ admissionMask_' = IF build = "admissionMask" THEN 0 ELSE admissionMask_
    /\ seen' = Observe(<<>>)
    /\ beaten' = {}
    /\ snapshot' = SnapshotsAfter(values_')
    /\ mutex_' = NoThread
    /\ Return(t)
    /\ UNCHANGED <<build, sliceCount_, ub, now, calls, it, end,
                   vals, sizeRet, snapshotVars>>

(* Impl::size, lines 109-114 / 294-299 *)
size_size(t) ==
    /\ ub = "none"
    /\ pc[t] = "s_size"
    /\ sizeRet' = [sizeRet EXCEPT ![t] = Len(values_)]
    /\ mutex_' = NoThread
    /\ Return(t)
    /\ UNCHANGED <<build, beaten, values_, sliceCount_, admissionMask_, ub, now, calls,
                   it, end, vals, seen, snapshot,
                   snapshotVars>>

(* Impl::MakeSnapshot, lines 176-178 / 350-352: vals, and begin() / end() of
   the range-for *)
MakeSnapshot_begin(t) ==
    /\ ub = "none"
    /\ pc[t] = "m_begin"
    /\ vals' = [vals EXCEPT ![t] = <<>>]
    /\ it' = [it EXCEPT ![t] = 1]
    /\ end' = [end EXCEPT ![t] = Len(values_) + 1]
    /\ pc' = [pc EXCEPT ![t] = "m_copy"]
    /\ UNCHANGED <<build, beaten, values_, sliceCount_, admissionMask_, mutex_, ub, now,
                   calls, value, timestamp, seen, sizeRet, snapshot,
                   snapshotVars>>

(* Lines 178-181 / 352-355: one iteration, vals.emplace_back(v.first).  An
   iterator whose element was popped meanwhile is dangling: what it reads is
   any value. *)
MakeSnapshot_copy(t) ==
    /\ ub = "none"
    /\ pc[t] = "m_copy"
    /\ it[t] /= end[t]
    /\ IF 1 <= it[t] /\ it[t] <= Len(values_)
       THEN vals' = [vals EXCEPT ![t] = Append(@, values_[it[t]].first)]
       ELSE \E g \in Values : vals' = [vals EXCEPT ![t] = Append(@, g)]
    /\ it' = [it EXCEPT ![t] = @ + 1]
    /\ UNCHANGED <<build, beaten, values_, sliceCount_, admissionMask_, mutex_, ub, now,
                   calls, pc, value, timestamp, end, seen, sizeRet, snapshot,
                   snapshotVars>>

(* Line 182 / 356: return {vals}; the lock_guard releases *)
MakeSnapshot_return(t) ==
    /\ ub = "none"
    /\ pc[t] = "m_copy"
    /\ it[t] = end[t]
    /\ \E garbage \in {0, 1} :
          snapshot' = [snapshot EXCEPT ![t] = SnapshotImpl(Weighted(vals[t]), garbage)]
    /\ vals' = [vals EXCEPT ![t] = <<>>]
    /\ it' = [it EXCEPT ![t] = 0]
    /\ end' = [end EXCEPT ![t] = 0]
    /\ mutex_' = NoThread
    /\ Return(t)
    /\ seen' = [seen EXCEPT ![t] = {}]
    /\ UNCHANGED <<build, beaten, values_, sliceCount_, admissionMask_, ub, now, calls,
                   sizeRet, snapshotVars>>

Next ==
    \/ \E t \in Threads :
          \/ \E v \in Values, ts \in TimePoints : CallUpdate(t, v, ts)
          \/ \E v \in Values : CallUpdateNow(t, v)
          \/ CallClear(t)
          \/ CallSize(t)
          \/ CallMakeSnapshot(t)
          \/ Update_lock(t)
          \/ Update_empty(t)
          \/ Update_newSlice(t)
          \/ Update_trim(t)
          \/ Update_pop(t)
          \/ Update_admit(t)
          \/ Clear_lock(t)
          \/ Clear_clear(t)
          \/ size_lock(t)
          \/ size_size(t)
          \/ MakeSnapshot_lock(t)
          \/ MakeSnapshot_begin(t)
          \/ MakeSnapshot_copy(t)
          \/ MakeSnapshot_return(t)

Spec == Init /\ [][Next]_vars

(* The steps thread t takes inside an operation it has been called into *)
Run(t) ==
    \/ Update_lock(t)
    \/ Update_empty(t)
    \/ Update_newSlice(t)
    \/ Update_trim(t)
    \/ Update_pop(t)
    \/ Update_admit(t)
    \/ Clear_lock(t)
    \/ Clear_clear(t)
    \/ size_lock(t)
    \/ size_size(t)
    \/ MakeSnapshot_lock(t)
    \/ MakeSnapshot_begin(t)
    \/ MakeSnapshot_copy(t)
    \/ MakeSnapshot_return(t)

(* Fair scheduling: a thread that can go on inside its operation does *)
FairSpec == Spec /\ \A t \in Threads : WF_vars(Run(t))

----------------------------------------------------------------------------
(* The Snapshot on its own: built from any input vector, then queried *)

SnapValues == {10, 20, 21, 30}
Inputs == UNION {[1..n -> SnapValues] : n \in 0..MaxLen}
Quantiles == {<<k, QDen>> : k \in -1..(QDen + 1)}
UnitQuantiles == {q \in Quantiles : 0 <= q[1] /\ q[1] <= q[2]}

SnapInit ==
    /\ build \in {"sliceCount", "admissionMask"}
    /\ values_ = <<>>
    /\ sliceCount_ = 0
    /\ admissionMask_ = 0
    /\ mutex_ = NoThread
    /\ ub = "none"
    /\ now = 0
    /\ calls = 0
    /\ pc = [t \in Threads |-> "idle"]
    /\ value = [t \in Threads |-> 0]
    /\ timestamp = [t \in Threads |-> 0]
    /\ it = [t \in Threads |-> 0]
    /\ end = [t \in Threads |-> 0]
    /\ vals = [t \in Threads |-> <<>>]
    /\ seen = [t \in Threads |-> {}]
    /\ beaten = {}
    /\ sizeRet = [t \in Threads |-> 0]
    /\ snapshot = [t \in Threads |-> Null]
    /\ \E v \in Inputs : input = Weighted(v)
    /\ impl_ = Null
    /\ movedTo = Null
    /\ result = Null

(* Snapshot::Snapshot(const std::vector<WeightedValue>&), lines 45-48 *)
Snapshot_construct ==
    /\ impl_ = Null
    /\ movedTo = Null
    /\ result = Null
    /\ \E garbage \in {0, 1} : impl_' = SnapshotImpl(input, garbage)
    /\ UNCHANGED <<input, movedTo, result, reservoirVars>>

(* Snapshot::Snapshot(Snapshot&& other), lines 50-52: the Snapshot under test
   is `other` *)
Snapshot_move ==
    /\ impl_ /= Null
    /\ movedTo = Null
    /\ movedTo' = impl_
    /\ impl_' = MovedFrom(impl_)
    /\ UNCHANGED <<input, result, reservoirVars>>

(* The two Snapshot objects a query can go to *)
Holders == {"from", "to"}
Held(h) == IF h = "from" THEN impl_ ELSE movedTo

(* Snapshot::checkImpl, lines 58-65, in front of every call through impl_ *)
checkImpl(h, ret) ==
    IF Held(h) = Null THEN Threw("runtime_error") ELSE ret

(* A query of an existing Snapshot object; `moved` records whether the
   Snapshot under test had been moved from when the query was made *)
Query(h, r) ==
    /\ impl_ /= Null \/ movedTo /= Null
    /\ h = "to" => movedTo /= Null
    /\ result' = r
    /\ UNCHANGED <<input, impl_, movedTo, reservoirVars>>

Outcome(h, op, ret) ==
    [op |-> op, on |-> h, moved |-> movedTo /= Null, ret |-> checkImpl(h, ret)]

(* Snapshot::size, lines 67-72 *)
Snapshot_size(h) == Query(h, Outcome(h, "size", Returned(size(Held(h)))))

(* Snapshot::getValues, lines 74-79 *)
Snapshot_getValues(h) ==
    Query(h, Outcome(h, "getValues", Returned(getValues(Held(h)))))

(* Snapshot::getValue, lines 81-86 *)
Snapshot_getValue(h, q) ==
    Query(h, [op |-> "getValue", on |-> h, moved |-> movedTo /= Null,
              quantile |-> q, ret |-> checkImpl(h, getValue(Held(h), q))])

(* Snapshot::getMedian ... get999thPercentile, lines 88-128 *)
Snapshot_getMedian(h) == Query(h, Outcome(h, "getMedian", getMedian(Held(h))))
Snapshot_get75thPercentile(h) ==
    Query(h, Outcome(h, "get75thPercentile", get75thPercentile(Held(h))))
Snapshot_get95thPercentile(h) ==
    Query(h, Outcome(h, "get95thPercentile", get95thPercentile(Held(h))))
Snapshot_get98thPercentile(h) ==
    Query(h, Outcome(h, "get98thPercentile", get98thPercentile(Held(h))))
Snapshot_get99thPercentile(h) ==
    Query(h, Outcome(h, "get99thPercentile", get99thPercentile(Held(h))))
Snapshot_get999thPercentile(h) ==
    Query(h, Outcome(h, "get999thPercentile", get999thPercentile(Held(h))))

SnapNext ==
    \/ Snapshot_construct
    \/ Snapshot_move
    \/ \E h \in Holders :
          \/ Snapshot_size(h)
          \/ Snapshot_getValues(h)
          \/ \E q \in Quantiles : Snapshot_getValue(h, q)
          \/ Snapshot_getMedian(h)
          \/ Snapshot_get75thPercentile(h)
          \/ Snapshot_get95thPercentile(h)
          \/ Snapshot_get98thPercentile(h)
          \/ Snapshot_get99thPercentile(h)
          \/ Snapshot_get999thPercentile(h)

SnapSpec == SnapInit /\ [][SnapNext]_vars

----------------------------------------------------------------------------
(* Properties *)

Expired(e, t) == e.second < expiryTime(t)

(* The entry count the deque reports *)
ReservoirSize == IF ub = "wrap" THEN SizeMax ELSE Len(values_)

Returns(t, from) == pc[t] = from /\ pc'[t] = "idle"

(* C1: capacity bound: whatever Update and Clear calls the threads make, the
   number of stored entries, and every value size() returned, is at most
   windowSize. *)
CapacityBound ==
    /\ ReservoirSize <= windowSize_
    /\ \A t \in Threads : sizeRet[t] <= windowSize_

(* C2: window bound for Update: when Update(value, t) returns, no stored entry
   has a timestamp earlier than t - windowTime. *)
UpdateWindowBound ==
    [][\A t \in Threads :
          Returns(t, "u_admit") =>
             \A i \in 1..Len(values_') : ~Expired(values_'[i], timestamp[t])]_vars

(* C3: window bound for MakeSnapshot: when a MakeSnapshot() called at time
   `now` returns, the reservoir holds no entry older than now - windowTime and
   no value handed to the snapshot was copied from an expired entry. *)
MakeSnapshotWindowBound ==
    [][\A t \in Threads :
          Returns(t, "m_copy") =>
             /\ \A i \in 1..Len(values_') : ~Expired(values_'[i], timestamp[t])
             /\ \A j \in 1..Len(vals[t]) :
                   j <= Len(values_) => ~Expired(values_[j], timestamp[t])]_vars

(* C4: lock discipline: a thread about to read or write the reservoir's
   mutable state holds the mutex, and no two threads are at such an access at
   once. *)
LockDiscipline ==
    /\ \A t \in Threads : pc[t] \in AccessPcs => mutex_ = t
    /\ \A t, u \in Threads :
          (t /= u /\ pc[t] \in AccessPcs) => pc[u] \notin AccessPcs

(* C5: consistent snapshot: the values MakeSnapshot hands to the snapshot
   are, as a multiset, what values_ held at one instant between the call and
   the return. *)
ConsistentSnapshot ==
    [][\A t \in Threads :
          Returns(t, "m_copy") =>
             \E s \in seen[t] : Sort(Weighted(s)) = Sort(Weighted(vals[t]))]_vars

(* C6: snapshot immutability: a snapshot a caller holds answers size(),
   getValues() and getValue(q) the same after any step of the reservoir that is
   not the return of a new snapshot to that caller. *)
SnapshotImmutable ==
    [][\A t \in Threads :
          (snapshot[t] /= Null /\ ~Returns(t, "m_copy")) =>
             /\ snapshot'[t] /= Null
             /\ size(snapshot'[t]) = size(snapshot[t])
             /\ getValues(snapshot'[t]) = getValues(snapshot[t])
             /\ \A q \in Quantiles :
                   getValue(snapshot'[t], q) = getValue(snapshot[t], q)]_vars

(* C6 witness: a caller still holds a non-empty snapshot after the reservoir it
   came from has been emptied. *)
SnapshotOutlivesContents ==
    \E t \in Threads :
       /\ snapshot[t] /= Null
       /\ size(snapshot[t]) > 0
       /\ values_ = <<>>
       /\ calls >= 3

(* C7: Clear resets everything: when Clear() returns, the entry sequence is
   empty and the per-slice admission state has its initial value. *)
ClearResets ==
    [][\A t \in Threads :
          Returns(t, "c_clear") =>
             /\ values_' = <<>>
             /\ sliceCount_' = 0
             /\ admissionMask_' = 0]_vars

(* C8: quantile monotonicity: q1 <= q2 in [0,1] gives
   getValue(q1) <= getValue(q2). *)
QuantileMonotone ==
    impl_ /= Null =>
       \A q1, q2 \in UnitQuantiles :
          q1[1] <= q2[1] => Leq(getValue(impl_, q1).ret, getValue(impl_, q2).ret)

(* C9: interpolation scenario: built from [10, 20, 20, 30], the snapshot
   holds 10 with weight 1, 20 with weight 2, 30 with weight 1, totalWeight 4;
   getValue(0) = 10, 10 < getValue(0.5) < 20, getValue(1) = 30. *)
InterpolationScenario ==
    (impl_ /= Null /\ input = Weighted(<<10, 20, 20, 30>>)) =>
       /\ impl_.values_ = <<WeightedValue(10, 1), WeightedValue(20, 2),
                            WeightedValue(30, 1)>>
       /\ impl_.totalWeight_ = 4
       /\ getValue(impl_, <<0, 1>>) = Returned(Rat(10, 1))
       /\ Less(Rat(10, 1), getValue(impl_, <<1, 2>>).ret)
       /\ Less(getValue(impl_, <<1, 2>>).ret, Rat(20, 1))
       /\ Leq(getValue(impl_, <<1, 1>>).ret, Rat(30, 1))
       /\ Leq(Rat(30, 1), getValue(impl_, <<1, 1>>).ret)

(* C10: compression: size() is the number of distinct input values and
   getValues() is exactly those values in strictly ascending order. *)
Compression ==
    impl_ /= Null =>
       LET distinct == {input[i].value : i \in 1..Len(input)}
           out == getValues(impl_)
       IN  /\ size(impl_) = Cardinality(distinct)
           /\ {out[i] : i \in 1..Len(out)} = distinct
           /\ \A i \in 1..(Len(out) - 1) : out[i] < out[i + 1]

(* A query that reached a live Snapshot (checkImpl let it through) *)
Answered == result /= Null /\ result.ret /= Threw("runtime_error")

PercentileOps == {"getMedian", "get75thPercentile", "get95thPercentile",
                  "get98thPercentile", "get99thPercentile", "get999thPercentile"}

(* C11: invalid quantile: on every snapshot, the empty one included,
   getValue(q) with q < 0 or q > 1 throws invalid_argument and yields no value,
   and with q in [0,1] it returns a value. *)
InvalidQuantile ==
    (Answered /\ result.op = "getValue") =>
       IF result.quantile[1] < 0 \/ result.quantile[1] > result.quantile[2]
       THEN result.ret = Threw("invalid_argument")
       ELSE result.ret.threw = "none"

(* C11 witness: getValue was called with a quantile above 1 on the snapshot of
   an empty input. *)
InvalidQuantileOnEmpty ==
    /\ Answered
    /\ result.op = "getValue"
    /\ result.quantile[1] > result.quantile[2]
    /\ input = <<>>

(* What a query answers on the Snapshot as it was constructed from `input` *)
Original(r) ==
    LET impl == SnapshotImpl(input, 0)
    IN  CASE r.op = "size" -> Returned(size(impl))
          [] r.op = "getValues" -> Returned(getValues(impl))
          [] r.op = "getValue" -> getValue(impl, r.quantile)
          [] r.op = "getMedian" -> getValue(impl, <<1, 2>>)
          [] r.op = "get75thPercentile" -> getValue(impl, <<3, 4>>)
          [] r.op = "get95thPercentile" -> getValue(impl, <<95, 100>>)
          [] r.op = "get98thPercentile" -> getValue(impl, <<98, 100>>)
          [] r.op = "get99thPercentile" -> getValue(impl, <<99, 100>>)
          [] r.op = "get999thPercentile" -> getValue(impl, <<999, 1000>>)

(* C12: use after move: once the snapshot has been moved into another one,
   every query on the moved-from holder fails with an error and returns no
   value, and every query on the receiving snapshot returns what the original
   returned. *)
UseAfterMove ==
    (result /= Null /\ result.moved) =>
       IF result.on = "from"
       THEN result.ret = Threw("runtime_error")
       ELSE result.ret = Original(result)

(* C12 witness: a percentile accessor was called on the moved-from holder of a
   non-empty snapshot. *)
QueriedAfterMove ==
    /\ result /= Null
    /\ result.moved
    /\ result.on = "from"
    /\ result.op \in PercentileOps
    /\ input /= <<>>

(* C13: empty snapshot: built from an empty input, size() is 0 and
   getValue(q), and so every percentile accessor, is 0 for q in [0,1]. *)
EmptySnapshot ==
    (Answered /\ input = <<>>) =>
       /\ result.op = "size" => result.ret = Returned(0)
       /\ (result.op = "getValue" /\ result.quantile \in UnitQuantiles) =>
             result.ret = Returned(Rat(0, 1))
       /\ result.op \in PercentileOps => result.ret = Returned(Rat(0, 1))

(* C13 witness: getValue(q), q in [0,1], was asked of an empty snapshot whose
   totalWeight_ was never written and holds a non-zero value. *)
EmptySnapshotQueried ==
    /\ Answered
    /\ input = <<>>
    /\ result.op = "getValue"
    /\ result.quantile \in UnitQuantiles
    /\ Held(result.on) /= Null
    /\ Held(result.on).totalWeight_ /= 0

RECURSIVE SumWeights(_)
SumWeights(ws) == IF ws = <<>> THEN 0 ELSE Head(ws).weight + SumWeights(Tail(ws))

(* C20: weight accounting: after construction each compressed entry's weight
   is the sum of the weights of the input values equal to its value, and
   totalWeight is the sum of the weights of the compressed entries. *)
WeightAccounting ==
    impl_ /= Null =>
       /\ \A i \in 1..Len(impl_.values_) :
             impl_.values_[i].weight =
                SumWeights(SelectSeq(input,
                                     LAMBDA x : x.value = impl_.values_[i].value))
       /\ impl_.totalWeight_ = SumWeights(impl_.values_)

(* C14: completion: under fair scheduling every call of Update, Clear, size
   and MakeSnapshot returns, without error and with the mutex released; no call
   pops an element from an empty entry sequence. *)
Completion ==
    /\ [](ub = "none")
    /\ [](\A t \in Threads : pc[t] = "idle" => mutex_ /= t)
    /\ \A t \in Threads : (pc[t] /= "idle") ~> (pc[t] = "idle")

(* C16: one representative per time slice: the timestamps of any two
   consecutive stored entries differ by more than one timeSlice. *)
OneRepresentativePerSlice ==
    \A i \in 1..(Len(values_) - 1) :
       values_[i + 1].second - values_[i].second > timeSlice_

(* C17: in-slice frame condition: an Update(value, t) with t in the slice of
   the last stored entry either overwrites the value of that entry or discards
   the incoming value; the entry's timestamp and every other entry stay. *)
InSliceFrame ==
    [][\A t \in Threads :
          (Returns(t, "u_admit") /\ SameSlice(values_, timestamp[t])) =>
             \/ values_' = values_
             \/ Overwritten(values_, values_', value[t])]_vars

(* C18: first value of a slice is always admitted: an Update(value, t) that
   finds the reservoir empty, or t more than one timeSlice after the last
   stored entry, appends (value, t) as the newest entry and evicts the oldest
   entry only if the count would exceed windowSize. *)
FirstOfSliceAdmitted ==
    [][\A t \in Threads :
          (Returns(t, "u_admit") /\ ~SameSlice(values_, timestamp[t])) =>
             LET e == Append(values_, Entry(value[t], timestamp[t]))
             IN  values_' = IF Len(e) > windowSize_ THEN Tail(e) ELSE e]_vars

(* C19: rank tournament: within a slice an incoming value overwrites the last
   entry iff its rank is strictly greater than the best rank so far, the rank
   being fixed by the value and the slice; so a value the retained one has
   already won against in the slice never overwrites it. *)
RankTournament ==
    [][\A t \in Threads :
          (Returns(t, "u_admit") /\ SameSlice(values_, timestamp[t])
             /\ value[t] \in beaten) =>
                ~Overwritten(values_, values_', value[t])]_vars

====
